---- MODULE Spec2Model ----
(***************************************************************************)
(* Model of the Zed extension in zed-extension/src/lib.rs: the unit struct *)
(* DatabaseOperationsMcpExtension, its two constructors and the            *)
(* context_server_command method, together with the host that constructs   *)
(* adapters, dispatches requests from its threads and owns the descriptors *)
(* it receives. The registry behind zed::register_extension! is code of    *)
(* zed_extension_api and is not modelled.                                  *)
(***************************************************************************)
EXTENDS Integers, Sequences, FiniteSets, TLC

\* ---------------------------------------------------------------- bounds
\* Largest number of adapter instances constructed in one run.
MaxInstances == 2
\* Largest number of context_server_command calls issued to one instance.
MaxCalls == 2
\* Depth to which a chain of nested calls is followed.
MaxStack == 4

\* Host threads that can have an invocation in progress.
Threads == {"t1", "t2"}
\* Values of the two inputs the host passes to context_server_command.
ContextServerIds == {"db-ops", "other-server"}
Projects == {"project-a", "project-b"}
\* What the host may do to a descriptor it owns.
Mutations == {"push_arg", "set_env"}

\* ------------------------------------------------------------- the code
\* struct DatabaseOperationsMcpExtension;  -- a unit struct: no fields.
DatabaseOperationsMcpExtension == <<>>

\* The inherent constructor: fn new() -> Self { Self }.
InherentNew == DatabaseOperationsMcpExtension

\* A resolution of `Self::new()` to the trait method itself.
ResolveSelfNewToTrait == "Extension::new"

\* `Self::new()` inside the trait impl: an inherent associated function takes
\* precedence over a trait method of the same name, so the path names the
\* inherent constructor.
ResolveSelfNew == "DatabaseOperationsMcpExtension::new"

\* The function a function's body calls ("none": it returns without a call).
Callee(f) ==
    CASE f = "Extension::new" -> ResolveSelfNew
      [] f = "DatabaseOperationsMcpExtension::new" -> "none"

\* The functions entered, in order, when f is called; "overflow" once the
\* nesting exceeds the stack.
RECURSIVE CallChain(_, _)
CallChain(f, fuel) ==
    IF f = "none" THEN <<>>
    ELSE IF fuel = 0 THEN <<"overflow">>
    ELSE <<f>> \o CallChain(Callee(f), fuel - 1)

\* <DatabaseOperationsMcpExtension as zed::Extension>::new: the functions it
\* enters and, when the chain ends, the value it returns.
ExtensionNew ==
    LET chain == CallChain("Extension::new", MaxStack) IN
    [trace |-> chain,
     returns |-> chain # <<>> /\ chain[Len(chain)] # "overflow",
     value |-> InherentNew]

\* command: "uv".to_string()
CommandName == "uv"

\* An argument vector that lost its last token.
CommandArgsShort == <<"run", "--project", ".">>

\* args: vec!["run", "--project", ".", "--mcp"]
CommandArgs == <<"run", "--project", ".", "--mcp">>

\* env: Default::default()  -- no (name, value) pairs.
CommandEnv == <<>>

\* A descriptor that passes the requested server's identifier on.
BuildCommandFromId(_id, _project) ==
    [command |-> CommandName, args |-> Append(CommandArgs, _id), env |-> CommandEnv]

\* zed::Command { command, args, env } as the method builds it.
BuildCommand(_id, _project) ==
    [command |-> CommandName, args |-> CommandArgs, env |-> CommandEnv]

\* The allocation made for a new owned value: an address not in use.
FreshAddr(heap) == CHOOSE a \in 1..(Cardinality(DOMAIN heap) + 1) : a \notin DOMAIN heap

\* Variants of the method, each with one slip.
\* ... fails for a server it does not know.
context_server_command_err(self, _id, _project, heap) ==
    LET a == FreshAddr(heap) IN
    IF _id = "db-ops"
    THEN [self |-> self, heap |-> heap @@ (a :> BuildCommand(_id, _project)),
          result |-> [tag |-> "Ok", addr |-> a], spawned |-> {}, written |-> {}]
    ELSE [self |-> self, heap |-> heap,
          result |-> [tag |-> "Err", addr |-> 0], spawned |-> {}, written |-> {}]

\* ... starts the server itself and leaves a file behind.
context_server_command_spawn(self, _id, _project, heap) ==
    LET a == FreshAddr(heap) IN
    [self |-> self, heap |-> heap @@ (a :> BuildCommand(_id, _project)),
     result |-> [tag |-> "Ok", addr |-> a],
     spawned |-> {"plugin"}, written |-> {"uv.lock"}]

\* ... hands out one descriptor kept between calls.
context_server_command_cached(self, _id, _project, heap) ==
    IF DOMAIN heap = {}
    THEN [self |-> self, heap |-> heap @@ (1 :> BuildCommand(_id, _project)),
          result |-> [tag |-> "Ok", addr |-> 1], spawned |-> {}, written |-> {}]
    ELSE LET a == CHOOSE x \in DOMAIN heap : TRUE IN
         [self |-> self, heap |-> heap,
          result |-> [tag |-> "Ok", addr |-> a], spawned |-> {}, written |-> {}]

\* ... records in the adapter that it was asked.
context_server_command_stateful(self, _id, _project, heap) ==
    LET a == FreshAddr(heap) IN
    [self |-> <<"asked">>, heap |-> heap @@ (a :> BuildCommand(_id, _project)),
     result |-> [tag |-> "Ok", addr |-> a], spawned |-> {}, written |-> {}]

\* ... refuses while a descriptor of an earlier call is still alive.
context_server_command_busy(self, _id, _project, heap) ==
    LET a == FreshAddr(heap) IN
    IF DOMAIN heap = {}
    THEN [self |-> self, heap |-> heap @@ (a :> BuildCommand(_id, _project)),
          result |-> [tag |-> "Ok", addr |-> a], spawned |-> {}, written |-> {}]
    ELSE [self |-> self, heap |-> heap,
          result |-> [tag |-> "Err", addr |-> 0], spawned |-> {}, written |-> {}]

\* ... answers differently once the adapter has been used.
context_server_command_history(self, _id, _project, heap) ==
    LET a == FreshAddr(heap) IN
    [self |-> <<"asked">>,
     heap |-> heap @@ (a :> IF self = <<>> THEN BuildCommand(_id, _project)
                            ELSE [BuildCommand(_id, _project) EXCEPT !.args = <<"run">>]),
     result |-> [tag |-> "Ok", addr |-> a], spawned |-> {}, written |-> {}]

\* fn context_server_command(&mut self, _id, _project) -> zed::Result<zed::Command>
\* The adapter afterwards, the heap with the newly built descriptor in it, the
\* result (Ok carrying the descriptor, moved to the caller), the processes the
\* body started and the files it wrote.
context_server_command(self, _id, _project, heap) ==
    LET a == FreshAddr(heap) IN
    [self |-> self,
     heap |-> heap @@ (a :> BuildCommand(_id, _project)),
     result |-> [tag |-> "Ok", addr |-> a],
     spawned |-> {},
     written |-> {}]

\* ------------------------------------------------------------ the state
VARIABLES
    instances,   \* the adapter instances constructed so far, by index
    newTrace,    \* the functions entered by the latest construction
    calls,       \* per instance: the calls issued to it
    first,       \* per instance: what its first call returned
    tpc,         \* per host thread: "idle", "pending" or "holding"
    frame,       \* per host thread: the arguments of its invocation
    ret,         \* per host thread: the result as it was returned
    ptr,         \* per host thread: the descriptor it owns (0: none)
    heap,        \* the live descriptors, by address
    procs,       \* who has launched a process so far
    files        \* the files written so far

vars == <<instances, newTrace, calls, first,
          tpc, frame, ret, ptr, heap, procs, files>>

NullCommand == [command |-> "", args |-> <<>>, env |-> <<>>]
NoFrame == [inst |-> 0, id |-> "", project |-> ""]
NoRet == [tag |-> "None", id |-> "", project |-> "", cmd |-> NullCommand]
NoFirst == [tag |-> "None", cmd |-> NullCommand]

\* The descriptor the spec fixes.
FixedDescriptor ==
    [command |-> "uv", args |-> <<"run", "--project", ".", "--mcp">>, env |-> <<>>]

Init ==
    /\ instances = <<>>
    /\ newTrace = <<>>
    /\ calls = <<>>
    /\ first = <<>>
    /\ tpc = [t \in Threads |-> "idle"]
    /\ frame = [t \in Threads |-> NoFrame]
    /\ ret = [t \in Threads |-> NoRet]
    /\ ptr = [t \in Threads |-> 0]
    /\ heap = <<>>
    /\ procs = {}
    /\ files = {}

\* An adapter instance is constructed through the host contract's new.
Construct ==
    /\ Len(instances) < MaxInstances
    /\ LET built == ExtensionNew IN
       /\ newTrace' = built.trace
       /\ IF built.returns
          THEN /\ instances' = Append(instances, built.value)
               /\ calls' = Append(calls, 0)
               /\ first' = Append(first, NoFirst)
          ELSE UNCHANGED <<instances, calls, first>>
    /\ UNCHANGED <<tpc, frame, ret, ptr, heap, procs, files>>

\* A host thread asks instance i for the command of server id in project p.
Request(t, i, id, p) ==
    /\ tpc[t] = "idle"
    /\ i \in 1..Len(instances)
    /\ calls[i] < MaxCalls
    /\ calls' = [calls EXCEPT ![i] = @ + 1]
    /\ tpc' = [tpc EXCEPT ![t] = "pending"]
    /\ frame' = [frame EXCEPT ![t] = [inst |-> i, id |-> id, project |-> p]]
    /\ UNCHANGED <<instances, newTrace, first, ret, ptr,
                   heap, procs, files>>

\* The invocation of thread t runs: the whole of context_server_command.
Serve(t) ==
    /\ tpc[t] = "pending"
    /\ LET f == frame[t]
           out == context_server_command(instances[f.inst], f.id, f.project, heap)
           cmd == IF out.result.tag = "Ok" THEN out.heap[out.result.addr]
                  ELSE NullCommand
       IN
       /\ instances' = [instances EXCEPT ![f.inst] = out.self]
       /\ heap' = out.heap
       /\ procs' = procs \cup out.spawned
       /\ files' = files \cup out.written
       /\ ret' = [ret EXCEPT ![t] = [tag |-> out.result.tag, id |-> f.id,
                                     project |-> f.project, cmd |-> cmd]]
       /\ ptr' = [ptr EXCEPT ![t] = out.result.addr]
       /\ first' = [first EXCEPT ![f.inst] =
                       IF @.tag = "None" THEN [tag |-> out.result.tag, cmd |-> cmd]
                       ELSE @]
    /\ tpc' = [tpc EXCEPT ![t] = "holding"]
    /\ frame' = [frame EXCEPT ![t] = NoFrame]
    /\ UNCHANGED <<newTrace, calls>>

\* The descriptor after the host changed it.
Mutated(cmd, m) ==
    CASE m = "push_arg" -> IF \E k \in 1..Len(cmd.args) : cmd.args[k] = "--verbose" THEN cmd
                           ELSE [cmd EXCEPT !.args = Append(@, "--verbose")]
      [] m = "set_env" -> [cmd EXCEPT !.env = << <<"RUST_LOG", "debug">> >>]

\* The host changes a descriptor it owns.
HostMutate(t, m) ==
    /\ tpc[t] = "holding"
    /\ ptr[t] # 0
    /\ Mutated(heap[ptr[t]], m) # heap[ptr[t]]
    /\ heap' = [heap EXCEPT ![ptr[t]] = Mutated(@, m)]
    /\ UNCHANGED <<instances, newTrace, calls, first,
                   tpc, frame, ret, ptr, procs, files>>

\* The host launches the process a descriptor it owns describes.
HostLaunch(t) ==
    /\ tpc[t] = "holding"
    /\ ptr[t] # 0
    /\ procs' = procs \cup {"host"}
    /\ UNCHANGED <<instances, newTrace, calls, first,
                   tpc, frame, ret, ptr, heap, files>>

\* The host is done with the result of thread t and drops it.
HostDrop(t) ==
    /\ tpc[t] = "holding"
    /\ heap' = [a \in DOMAIN heap \ {ptr[t]} |-> heap[a]]
    /\ tpc' = [tpc EXCEPT ![t] = "idle"]
    /\ ret' = [ret EXCEPT ![t] = NoRet]
    /\ ptr' = [ptr EXCEPT ![t] = 0]
    /\ UNCHANGED <<instances, newTrace, calls, first,
                   frame, procs, files>>

Next ==
    \/ Construct
    \/ \E t \in Threads, i \in 1..MaxInstances, id \in ContextServerIds, p \in Projects :
          Request(t, i, id, p)
    \/ \E t \in Threads : Serve(t)
    \/ \E t \in Threads, m \in Mutations : HostMutate(t, m)
    \/ \E t \in Threads : HostLaunch(t)
    \/ \E t \in Threads : HostDrop(t)

Spec == Init /\ [][Next]_vars

\* An invocation that was issued runs: the method has no loop and waits for
\* nothing.
FairSpec == Spec /\ \A t \in Threads : WF_vars(Serve(t))

\* --------------------------------------------------------------- claims
Holding(t) == tpc[t] = "holding"
Pending(t) == tpc[t] = "pending"
\* The calls of instance i that have run to completion.
Served(i) == calls[i] - Cardinality({t \in Threads : Pending(t) /\ frame[t].inst = i})

\* C1: whatever identifier and project a call was given, the result it returned
\* carries the executable "uv", exactly the four arguments "run", "--project",
\* ".", "--mcp" in that order, and an empty environment.
C1_FixedShape ==
    \A t \in Threads :
        Holding(t) =>
            /\ ret[t].cmd.command = "uv"
            /\ Len(ret[t].cmd.args) = 4
            /\ ret[t].cmd.args[1] = "run"
            /\ ret[t].cmd.args[2] = "--project"
            /\ ret[t].cmd.args[3] = "."
            /\ ret[t].cmd.args[4] = "--mcp"
            /\ ret[t].cmd.env = <<>>

C1_Witness ==
    \E t \in Threads :
        /\ Holding(t)
        /\ ret[t].id = "db-ops"
        /\ ret[t].cmd = FixedDescriptor

\* C2: any two calls, whatever their identifiers and projects, returned the
\* same outcome and the same descriptor.
C2_Determinism ==
    \A t, u \in Threads :
        (Holding(t) /\ Holding(u)) =>
            /\ ret[t].tag = ret[u].tag
            /\ ret[t].cmd = ret[u].cmd

C2_Witness ==
    \E t, u \in Threads :
        /\ Holding(t) /\ Holding(u)
        /\ ret[t].id # ret[u].id
        /\ ret[t].project # ret[u].project
        /\ ret[t].cmd = ret[u].cmd

\* C3: every call that returned, returned success carrying a descriptor; no
\* call, first or later, returned the failure outcome.
C3_NeverFails ==
    /\ \A t \in Threads : Holding(t) => (ret[t].tag = "Ok" /\ ptr[t] \in DOMAIN heap)
    /\ \A i \in 1..Len(first) : first[i].tag # "Err"

C3_Witness ==
    \E t \in Threads :
        /\ Holding(t)
        /\ ret[t].tag = "Ok"
        /\ ret[t].id = "other-server"
        /\ \E i \in 1..Len(instances) : Served(i) >= 2

\* C4: a call leaves every adapter, the processes, the files and every
\* descriptor already alive as they were; no file is ever written; a
\* process is launched only by the host, for a descriptor it has received.
C4_NoSideEffects ==
    /\ [][(\E t \in Threads : Pending(t) /\ tpc'[t] = "holding") =>
              /\ instances' = instances
              /\ procs' = procs
              /\ files' = files
              /\ \A a \in DOMAIN heap : a \in DOMAIN heap' /\ heap'[a] = heap[a]]_vars
    /\ [][procs' # procs =>
              /\ procs' = procs \cup {"host"}
              /\ \E t \in Threads : Holding(t) /\ ret[t].tag = "Ok" /\ ptr[t] # 0]_vars
    /\ [](files = {})

C4_Witness ==
    /\ procs = {"host"}
    /\ \E i \in 1..Len(instances) : Served(i) >= 2
    /\ files = {}

\* C5: every construction returns: the trait's new enters the adapter's own
\* constructor and nothing else, no function is entered twice, the value is
\* the field-less adapter, and nothing but the list of instances changes.
NoRecursion(trace) ==
    /\ \A j, k \in 1..Len(trace) : j # k => trace[j] # trace[k]
    /\ \A j \in 1..Len(trace) : trace[j] # "overflow"

C5_ConstructTerminates ==
    [][(newTrace' # newTrace \/ Len(instances') # Len(instances)) =>
           /\ NoRecursion(newTrace')
           /\ Len(newTrace') = 2
           /\ newTrace'[1] = "Extension::new"
           /\ newTrace'[2] = "DatabaseOperationsMcpExtension::new"
           /\ Len(instances') = Len(instances) + 1
           /\ instances'[Len(instances')] = <<>>
           /\ UNCHANGED <<tpc, frame, ret, ptr, heap, procs, files>>]_vars

C5_Witness ==
    /\ Len(instances) >= 2
    /\ newTrace = <<"Extension::new", "DatabaseOperationsMcpExtension::new">>

\* C6: each result is a descriptor of its own: no two results the host holds
\* are the same object, and whatever the host did to the descriptors it owns,
\* every result was the fixed descriptor when it was returned.
C6_FreshAndOwned ==
    \A t \in Threads :
        Holding(t) =>
            /\ ptr[t] \in DOMAIN heap
            /\ ret[t].cmd = FixedDescriptor
            /\ \A u \in Threads \ {t} : Holding(u) => ptr[u] # ptr[t]

C6_Witness ==
    \E t, u \in Threads :
        /\ t # u
        /\ Holding(t) /\ Holding(u)
        /\ heap[ptr[t]].args # FixedDescriptor.args
        /\ heap[ptr[t]].env # FixedDescriptor.env
        /\ heap[ptr[u]] = FixedDescriptor
        /\ ret[u].cmd = FixedDescriptor

\* C7: every adapter instance is, at all times, the same field-less value it
\* was constructed as, however many calls it has served.
C7_SingleState ==
    \A i \in 1..Len(instances) : instances[i] = DatabaseOperationsMcpExtension

C7_Witness ==
    \E i \in 1..Len(instances) :
        /\ Served(i) >= 2
        /\ instances[i] = <<>>

\* C9: an invocation in progress completes with the fixed descriptor, whatever
\* other invocations are in progress or have results alive.
C9_AlwaysCompletes ==
    \A t \in Threads :
        Pending(t) ~> (Holding(t) /\ ret[t].tag = "Ok" /\ ret[t].cmd = FixedDescriptor)

C9_Witness ==
    \E t, u \in Threads :
        /\ t # u
        /\ Pending(t)
        /\ Holding(u) /\ ret[u].tag = "Ok" /\ ret[u].cmd = FixedDescriptor
        /\ heap[ptr[u]] # FixedDescriptor
        /\ Served(frame[t].inst) >= 1

\* C10: what a call returns equals what the first call of its instance
\* returned and what the first call of every other instance returned.
C10_HistoryIndependent ==
    /\ \A t \in Threads : \A i \in 1..Len(first) :
           (Holding(t) /\ first[i].tag # "None") =>
               (ret[t].tag = first[i].tag /\ ret[t].cmd = first[i].cmd)
    /\ \A i, j \in 1..Len(first) :
           (first[i].tag # "None" /\ first[j].tag # "None") => first[i] = first[j]

C10_Witness ==
    \E t, u \in Threads : \E i, j \in 1..Len(first) :
        /\ t # u /\ i # j
        /\ Holding(t) /\ Holding(u)
        /\ ret[t].id # ret[u].id
        /\ Served(i) >= 2
        /\ first[i].tag = "Ok" /\ first[j].tag = "Ok"
        /\ ret[t].cmd = first[i].cmd
        /\ ret[u].cmd = first[j].cmd
====
